---- MODULE Spec2Model ----
(***************************************************************************)
(* Model of the deferred-command viewport proxy (old/windowing.rs) and of  *)
(* the window manager it drains into.                                      *)
(*                                                                         *)
(* Floating point coordinates (ImVec2) are modelled in units of one half,  *)
(* so that f32::round and the float/integer casts are real conversions.    *)
(* A Rust panic (failed unwrap/expect) ends the program: it sets panicked  *)
(* and no operation runs afterwards.                                       *)
(*                                                                         *)
(* The module also models the viewport collection of src/wgpu.rs           *)
(* (WgpuManager, WgpuViewport and its Outlet), which shares no state with  *)
(* the proxy.                                                              *)
(***************************************************************************)
EXTENDS Integers, Sequences, FiniteSets, TLC

\* ------------------------------------------------------------------ bounds
MaxKey == 2        \* keys are minted while next_id <= MaxKey
MaxQueue == 2      \* commands queued between two drains
MaxPending == 1    \* the same, in Spec, where every kind of command is queued
MaxStack == 4      \* entries of the GUI's focus stack
KeyWidth == 3      \* bits of a Key, cut down from the width of a pointer

\* ------------------------------------------------------------- value sets
None == [some |-> FALSE]

Keys == 0..MaxKey                \* keys a caller may pass: 0, never minted, included
WindowIds == 1..MaxKey           \* ids the windowing layer hands out
MainWid == 1                     \* first_id, the id of the window made in main

\* ImVec2 in half units: 3 is 1.5, -3 is -1.5, 4 is 2.0
Vecs == { [x |-> 3, y |-> 4], [x |-> -3, y |-> 5] }
Titles == { "a", "b" }
OneVec == [x |-> -3, y |-> 5]
OneTitle == "a"
\* sizes the operating system reports in a Resized event
EventSizes == { [width |-> 0, height |-> 0], [width |-> 8, height |-> 6] }

\* ------------------------------------------------------------ conversions
\* f32::round: to the nearest integer, halves away from zero
Round(h) == IF h >= 0 THEN (h + 1) \div 2 ELSE -((-h + 1) \div 2)
\* `as i32` (saturating; the model's values are far from the limits)
AsI32(n) == n
\* `as u32` saturates negative values to 0
AsU32(n) == IF n < 0 THEN 0 ELSE n
\* integer `as f32`, in half units
AsF32(n) == 2 * n

ToPhysicalPosition(v) == [x |-> AsI32(Round(v.x)), y |-> AsI32(Round(v.y))]
ToPhysicalSize(v) == [width |-> AsU32(Round(v.x)), height |-> AsU32(Round(v.y))]

\* ------------------------------------------------------------------ state
VARIABLES
    manager_windows,   \* Manager.windows : WindowId -> NativeWindow
    proxy_windows,     \* Proxy.windows   : Key -> Cache
    commands,          \* Proxy.commands
    next_id,           \* Proxy.next_id
    ret,               \* the last operation and what it returned
    minted,            \* history: the keys next_key has returned, in order
    panicked,          \* a panic has ended the program
    phase,             \* main's position: "setup" until register_platform, then "running"
    pc,                \* main's position inside one turn of the event loop
    viewports,         \* WgpuManager.viewports : WindowId -> WgpuViewport
    focus,             \* the FocusOrder iterator in use, and what it has returned
    gui_keys           \* the non-zero PlatformUserData of the GUI's viewports

vars == <<manager_windows, proxy_windows, commands, next_id, ret, minted, panicked, phase,
          pc, viewports, focus, gui_keys>>

\* the state of a window as the windowing layer creates it
DefaultPos == [x |-> 0, y |-> 0]
DefaultSize == [width |-> 8, height |-> 6]

\* Outlet::desc(): the descriptor before any swap chain was built
Outlet_desc == [width |-> 0, height |-> 0]

\* NativeWindow::with_surface around a window the windowing layer built
NativeWindow_with_surface(decorations, title) ==
    [ pos |-> DefaultPos, size |-> DefaultSize, title |-> title,
      visible |-> TRUE, decorations |-> decorations,
      focus |-> TRUE, minimized |-> FALSE, swap_chain |-> FALSE,
      sc_desc |-> Outlet_desc ]

\* a create_swap_chain that builds from the descriptor as it stands
create_swap_chain_stale(window) == [window EXCEPT !.swap_chain = TRUE]

\* NativeWindow::create_swap_chain: the descriptor takes the window's inner
\* size as it is now
create_swap_chain(window) ==
    [window EXCEPT !.sc_desc = window.size, !.swap_chain = TRUE]

\* Manager::maintain_outlets: every window without a swap chain gets one
maintain_outlets(mw) ==
    [w \in DOMAIN mw |->
        IF mw[w].swap_chain THEN mw[w] ELSE create_swap_chain(mw[w])]

\* Manager::from_parts
Manager_from_parts ==
    [w \in {MainWid} |-> NativeWindow_with_surface(TRUE, "main")]

ZeroVec == [x |-> 0, y |-> 0]
\* the last operation and what it returned: a vector (get_position, get_size),
\* a flag (get_focus, get_minimized), a key (create_window, use_window; for a
\* getter, the key it was asked about) or nothing; for update, also the
\* commands it found in the queue; for a draw, what became of the frame of
\* each window drawn
Returned(op, key, vec, flag) ==
    [op |-> op, key |-> key, outcome |-> "ok", vec |-> vec, flag |-> flag,
     drained |-> << >>, frames |-> << >>]
Unit(op, key) == Returned(op, key, ZeroVec, FALSE)
Panic(op, key) == [Unit(op, key) EXCEPT !.outcome = "panic"]
Drained(outcome, cmds) ==
    [Unit("update", 0) EXCEPT !.outcome = outcome, !.drained = cmds]

EmptyMap == [k \in {} |-> None]

\* WgpuManager::new
WgpuManager_new == EmptyMap

\* no FocusOrder has been made yet
NoFocusOrder ==
    [made |-> FALSE, stack |-> << >>, windows |-> << >>, emitted |-> << >>,
     last |-> [some |-> FALSE]]

\* Proxy::new
Proxy_new == [windows |-> EmptyMap, commands |-> << >>, next_id |-> 1]

\* main up to register_platform: Manager::from_parts; the Proxy is the one
\* Proxy::shared builds, before use_window
Init ==
    /\ phase = "setup"
    /\ manager_windows = Manager_from_parts
    /\ proxy_windows = Proxy_new.windows
    /\ commands = Proxy_new.commands
    /\ next_id = Proxy_new.next_id
    /\ ret = Unit("new", 0)
    /\ minted = << >>
    /\ panicked = FALSE
    /\ pc = "events"
    /\ viewports = WgpuManager_new
    /\ focus = NoFocusOrder
    /\ gui_keys = {}

\* ---------------------------------------------------------------- helpers
MapPut(m, k, v) == [x \in (DOMAIN m) \cup {k} |-> IF x = k THEN v ELSE m[x]]
MapRemove(m, k) == [x \in (DOMAIN m) \ {k} |-> m[x]]

\* Command { key, kind }; the fields a kind does not carry hold a default
Command(key, kind, decorations, vec, title) ==
    [key |-> key, kind |-> kind, decorations |-> decorations, vec |-> vec, title |-> title]
Cache(wid, data) == [wid |-> wid, data |-> data]

\* ------------------------------------------------- Proxy: enqueueing side
\* a Key is an unsigned integer of KeyWidth bits
KeyModulus == 2 ^ KeyWidth

\* a next_key that increments before it reads
next_key_incremented_first(id) ==
    [key |-> id + 1, next_id |-> id + 1, overflow |-> FALSE]

\* a getter that answers with a default when the entry is absent
get_size_or_default(pw, key) ==
    IF key \in DOMAIN pw /\ pw[key].data.some
    THEN Returned("get_size", key, pw[key].data.size, FALSE)
    ELSE Returned("get_size", key, ZeroVec, FALSE)

\* Proxy::next_key: the key, the counter after `+= 1` when it wraps, and
\* whether the increment overflows
next_key(id) ==
    [key |-> id, next_id |-> (id + 1) % KeyModulus, overflow |-> id + 1 = KeyModulus]

\* Proxy::make_dirty
make_dirty(pw, key) ==
    IF key \in DOMAIN pw THEN [pw EXCEPT ![key].data = None] ELSE pw

\* Proxy::use_window: the proxy's windows after it
use_window(pw, key, wid) == MapPut(pw, key, Cache(wid, None))

\* a set_size that leaves the cache entry as it is
set_size_cache_kept(pw, key) == pw

\* a set_title that marks the entry dirty as set_position does
set_title_cache_dirty(pw, key) == make_dirty(pw, key)

\* a create_window that enters the key in Proxy.windows when it mints it
create_window_cache_at_once(pw, key) == MapPut(pw, key, Cache(MainWid, None))

\* what each enqueueing method does to Proxy.windows before it pushes
create_window_cache(pw, key) == pw
destroy_window_cache(pw, key) == pw
show_window_cache(pw, key) == pw
set_position_cache(pw, key) == make_dirty(pw, key)
set_size_cache(pw, key) == make_dirty(pw, key)
set_focus_cache(pw, key) == make_dirty(pw, key)
set_title_cache(pw, key) == pw

\* self.commands.push(..)
push(cmds, c) == Append(cmds, c)

\* ---------------------------------------------------- Proxy: reading side
HasData(pw, key) == key \in DOMAIN pw /\ pw[key].data.some

\* Proxy::expect_data_from_key followed by the field each getter reads
get_position(pw, key) ==
    IF HasData(pw, key) THEN Returned("get_position", key, pw[key].data.pos, FALSE)
    ELSE Panic("get_position", key)
get_size(pw, key) ==
    IF HasData(pw, key) THEN Returned("get_size", key, pw[key].data.size, FALSE)
    ELSE Panic("get_size", key)
get_focus(pw, key) ==
    IF HasData(pw, key) THEN Returned("get_focus", key, ZeroVec, pw[key].data.focus)
    ELSE Panic("get_focus", key)
get_minimized(pw, key) ==
    IF HasData(pw, key) THEN Returned("get_minimized", key, ZeroVec, pw[key].data.minimized)
    ELSE Panic("get_minimized", key)

\* ------------------------------------------------------------ Manager side
\* ActiveManager::spawn_native_window, given the id the windowing layer chose
spawn_native_window(mw, wid, decorations) ==
    MapPut(mw, wid, NativeWindow_with_surface(decorations, "winit window"))

\* Manager::make_window_dirty (the caller has checked that wid is present)
make_window_dirty(mw, wid) == [mw EXCEPT ![wid].swap_chain = FALSE]

\* a close_native_window that reports whether it removed a window
close_native_window_reporting_removal(mw, wid) ==
    [windows |-> MapRemove(mw, wid), empty |-> wid \in DOMAIN mw]

\* Manager::close_native_window
close_native_window(mw, wid) ==
    LET left == MapRemove(mw, wid) IN [windows |-> left, empty |-> DOMAIN left = {}]

\* Manager::expect_native_window finds the window, or panics
expect_native_window(mw, wid) == wid \in DOMAIN mw

\* a get_current_frame that does not look at the minimized flag
get_current_frame_unminimized(window, acquired) ==
    [window |-> IF window.swap_chain THEN window ELSE create_swap_chain(window),
     frame |-> IF acquired THEN "frame" ELSE "error"]

\* NativeWindow::get_current_frame: the window after it and what it returns;
\* `acquired` is the answer of the swap chain, when it is asked
get_current_frame(window, acquired) ==
    IF window.minimized THEN [window |-> window, frame |-> "none"]
    ELSE [window |-> IF window.swap_chain THEN window ELSE create_swap_chain(window),
          frame |-> IF acquired THEN "frame" ELSE "error"]

\* the callback render_all_vp gives to draw_data: what it reports for a frame
render_callback(frame) ==
    CASE frame = "frame" -> "rendered"
      [] frame = "none" -> "minimized"
      [] frame = "error" -> "dropped frame"

\* ----------------------------------------------------------- Proxy::update
\* a CacheData with the two vectors exchanged
CacheDataExchanged(window) ==
    [ some |-> TRUE,
      size |-> [x |-> AsF32(window.pos.x), y |-> AsF32(window.pos.y)],
      pos |-> [x |-> AsF32(window.size.width), y |-> AsF32(window.size.height)],
      focus |-> window.focus,
      minimized |-> window.minimized ]

\* the CacheData update reads from a window
CacheData(window) ==
    [ some |-> TRUE,
      size |-> [x |-> AsF32(window.size.width), y |-> AsF32(window.size.height)],
      pos |-> [x |-> AsF32(window.pos.x), y |-> AsF32(window.pos.y)],
      focus |-> window.focus,
      minimized |-> window.minimized ]

\* an inner match whose SetSize arm leaves the swap chain where it is
ApplyToWindowKeepingSwapChain(window, c) ==
    CASE c.kind = "ShowWindow" -> [window EXCEPT !.visible = TRUE]
      [] c.kind = "SetPos" -> [window EXCEPT !.pos = ToPhysicalPosition(c.vec)]
      [] c.kind = "SetSize" -> [window EXCEPT !.size = ToPhysicalSize(c.vec)]
      [] c.kind = "SetFocus" -> window
      [] c.kind = "SetTitle" -> [window EXCEPT !.title = c.title]

\* the arms of the inner match, on the window found for the command's key
ApplyToWindow(window, c) ==
    CASE c.kind = "ShowWindow" -> [window EXCEPT !.visible = TRUE]
      [] c.kind = "SetPos" -> [window EXCEPT !.pos = ToPhysicalPosition(c.vec)]
      [] c.kind = "SetSize" ->
            [window EXCEPT !.size = ToPhysicalSize(c.vec), !.swap_chain = FALSE]
      [] c.kind = "SetFocus" -> window
      [] c.kind = "SetTitle" -> [window EXCEPT !.title = c.title]

\* a CreateWindow arm that records the main window's id for the new key
CreateArmRecordingMain(st, c) ==
    IF Head(st.fresh) \in DOMAIN st.mw
    THEN [st EXCEPT !.outcome = "infeasible"]
    ELSE [st EXCEPT !.mw = spawn_native_window(st.mw, Head(st.fresh), c.decorations),
                    !.pw = MapPut(st.pw, c.key, Cache(MainWid, None)),
                    !.fresh = Tail(st.fresh)]

\* the CreateWindow arm; Head(st.fresh) is the id of the window it spawns
CreateArm(st, c) ==
    IF Head(st.fresh) \in DOMAIN st.mw
    THEN [st EXCEPT !.outcome = "infeasible"]
    ELSE [st EXCEPT !.mw = spawn_native_window(st.mw, Head(st.fresh), c.decorations),
                    !.pw = MapPut(st.pw, c.key, Cache(Head(st.fresh), None)),
                    !.fresh = Tail(st.fresh)]

\* a DestroyWindow arm that forgets the Manager's window
DestroyArmKeepingWindow(st, c) ==
    IF c.key \notin DOMAIN st.pw THEN [st EXCEPT !.outcome = "panic"]
    ELSE [st EXCEPT !.pw = MapRemove(st.pw, c.key)]

\* a DestroyWindow arm that looks the key up without removing it
DestroyArmKeepingKey(st, c) ==
    IF c.key \notin DOMAIN st.pw THEN [st EXCEPT !.outcome = "panic"]
    ELSE [st EXCEPT !.mw = MapRemove(st.mw, st.pw[c.key].wid)]

\* the DestroyWindow arm
DestroyArm(st, c) ==
    IF c.key \notin DOMAIN st.pw THEN [st EXCEPT !.outcome = "panic"]
    ELSE [st EXCEPT !.pw = MapRemove(st.pw, c.key),
                    !.mw = MapRemove(st.mw, st.pw[c.key].wid)]

\* the arm of every other kind: the two lookups, then the inner match
WindowArm(st, c) ==
    IF c.key \notin DOMAIN st.pw THEN [st EXCEPT !.outcome = "panic"]
    ELSE IF st.pw[c.key].wid \notin DOMAIN st.mw THEN [st EXCEPT !.outcome = "panic"]
    ELSE [st EXCEPT !.mw[st.pw[c.key].wid] = ApplyToWindow(@, c)]

\* one iteration of the loop over commands.drain(..); st.fresh are the ids
\* the windowing layer will give to the windows created from here on
ApplyCommand(st, c) ==
    CASE c.kind = "CreateWindow" -> CreateArm(st, c)
      [] c.kind = "DestroyWindow" -> DestroyArm(st, c)
      [] OTHER -> WindowArm(st, c)

\* a drain that takes the newest command first
RECURSIVE ApplyCommandsNewestFirst(_, _)
ApplyCommandsNewestFirst(cmds, st) ==
    IF cmds = << >> \/ st.outcome # "ok" THEN st
    ELSE ApplyCommandsNewestFirst(SubSeq(cmds, 1, Len(cmds) - 1),
                                  ApplyCommand(st, cmds[Len(cmds)]))

\* for Command { key, kind } in self.commands.drain(..), stopping at a panic
RECURSIVE ApplyCommands(_, _)
ApplyCommands(cmds, st) ==
    IF cmds = << >> \/ st.outcome # "ok" THEN st
    ELSE ApplyCommands(Tail(cmds), ApplyCommand(st, Head(cmds)))

\* the keys whose window the refresh loop would not find
Dangling(pw, mw) == {k \in DOMAIN pw : pw[k].wid \notin DOMAIN mw}

\* a refresh loop that recomputes only the entries that are absent
RefreshCacheOnlyAbsent(pw, mw, done) ==
    [k \in DOMAIN pw |->
        IF k \in done /\ ~pw[k].data.some
        THEN Cache(pw[k].wid, CacheData(mw[pw[k].wid])) ELSE pw[k]]

\* the refresh loop of update, over the entries in `done`
RefreshCache(pw, mw, done) ==
    [k \in DOMAIN pw |->
        IF k \in done THEN Cache(pw[k].wid, CacheData(mw[pw[k].wid])) ELSE pw[k]]

NumCreates(cmds) == Cardinality({i \in 1..Len(cmds) : cmds[i].kind = "CreateWindow"})

\* the ids the windowing layer may give to n new windows, in creation order
FreshIds(wids, n) ==
    {f \in [1..n -> wids] : \A i, j \in 1..n : i # j => f[i] # f[j]}

\* ---------------------------------------------------------------- actions
Running == phase = "running" /\ ~panicked

\* register_platform (use_window on the main window, whose key goes into the
\* main viewport's PlatformUserData), then maintain_outlets
RegisterPlatform ==
    /\ phase = "setup"
    /\ LET nk == next_key(next_id) IN
        /\ next_id' = nk.next_id
        /\ minted' = Append(minted, nk.key)
        /\ proxy_windows' = use_window(proxy_windows, nk.key, MainWid)
        /\ ret' = Returned("use_window", nk.key, ZeroVec, FALSE)
        /\ gui_keys' = gui_keys \cup {nk.key}
    /\ manager_windows' = maintain_outlets(manager_windows)
    /\ phase' = "running"
    /\ UNCHANGED <<commands, panicked>>

\* Proxy::create_window.  An increment that overflows panics in a build with
\* overflow checks and wraps in a build without them: either can be the
\* build that runs.
CreateWindow(decorations) ==
    /\ Running
    /\ LET nk == next_key(next_id) IN
        \E overflow_checks \in (IF nk.overflow THEN BOOLEAN ELSE {FALSE}) :
            IF nk.overflow /\ overflow_checks
            THEN /\ panicked' = TRUE
                 /\ ret' = Panic("create_window", 0)
                 /\ UNCHANGED <<next_id, minted, proxy_windows, commands>>
            ELSE /\ next_id' = nk.next_id
                 /\ minted' = Append(minted, nk.key)
                 /\ proxy_windows' = create_window_cache(proxy_windows, nk.key)
                 /\ commands' = push(commands,
                        Command(nk.key, "CreateWindow", decorations, ZeroVec, ""))
                 /\ ret' = Returned("create_window", nk.key, ZeroVec, FALSE)
                 /\ panicked' = FALSE
    /\ UNCHANGED <<manager_windows, phase>>

\* an enqueueing method that applies its command to the window at once
EnqueueApplyingAtOnce(op, pw, c) ==
    /\ Running
    /\ proxy_windows' = pw
    /\ commands' = push(commands, c)
    /\ ret' = Unit(op, 0)
    /\ manager_windows' =
            IF c.key \in DOMAIN pw /\ c.kind # "DestroyWindow"
                             /\ pw[c.key].wid \in DOMAIN manager_windows
            THEN [manager_windows EXCEPT ![pw[c.key].wid] = ApplyToWindow(@, c)]
            ELSE manager_windows
    /\ UNCHANGED <<next_id, minted, panicked, phase>>

\* the enqueueing methods that mint no key
Enqueue(op, pw, c) ==
    /\ Running
    /\ proxy_windows' = pw
    /\ commands' = push(commands, c)
    /\ ret' = Unit(op, 0)
    /\ UNCHANGED <<manager_windows, next_id, minted, panicked, phase>>

\* Proxy::destroy_window
DestroyWindow(key) ==
    Enqueue("destroy_window", destroy_window_cache(proxy_windows, key),
            Command(key, "DestroyWindow", FALSE, ZeroVec, ""))

\* Proxy::show_window
ShowWindow(key) ==
    Enqueue("show_window", show_window_cache(proxy_windows, key),
            Command(key, "ShowWindow", FALSE, ZeroVec, ""))

\* Proxy::set_position
SetPosition(key, pos) ==
    Enqueue("set_position", set_position_cache(proxy_windows, key),
            Command(key, "SetPos", FALSE, pos, ""))

\* Proxy::set_size
SetSize(key, size) ==
    Enqueue("set_size", set_size_cache(proxy_windows, key),
            Command(key, "SetSize", FALSE, size, ""))

\* Proxy::set_focus
SetFocus(key) ==
    Enqueue("set_focus", set_focus_cache(proxy_windows, key),
            Command(key, "SetFocus", FALSE, ZeroVec, ""))

\* Proxy::set_title
SetTitle(key, title) ==
    Enqueue("set_title", set_title_cache(proxy_windows, key),
            Command(key, "SetTitle", FALSE, ZeroVec, title))

\* a getter: its result, or the panic of expect_data_from_key
Get(result) ==
    /\ Running
    /\ ret' = result
    /\ panicked' = (result.outcome = "panic")
    /\ UNCHANGED <<manager_windows, proxy_windows, commands, next_id, minted, phase>>

GetPosition(key) == Get(get_position(proxy_windows, key))
GetSize(key) == Get(get_size(proxy_windows, key))
GetFocus(key) == Get(get_focus(proxy_windows, key))
GetMinimized(key) == Get(get_minimized(proxy_windows, key))

\* the create_window callback of register_platform: the viewport has no key
\* yet (assert_eq!(*key, 0)) and takes the key Proxy::create_window returns
Platform_CreateWindow(decorations) ==
    /\ CreateWindow(decorations)
    /\ gui_keys' = IF ret'.outcome = "ok" THEN gui_keys \cup {ret'.key} ELSE gui_keys

\* the destroy_window callback of register_platform, on a viewport that
\* carries `key`: Proxy::destroy_window, then the viewport's key is 0
Platform_DestroyWindow(key) ==
    /\ key \in gui_keys
    /\ DestroyWindow(key)
    /\ gui_keys' = gui_keys \ {key}

\* Proxy::update: the drain, then the cache refresh.  A panic inside the
\* drain loop drops the Drain iterator, which empties the queue; a panic
\* inside the refresh loop leaves refreshed the entries the HashMap iterated
\* before the failing one.
Update(wids) ==
    /\ Running
    /\ \E fresh \in FreshIds(wids, NumCreates(commands)) :
        LET st == ApplyCommands(commands,
                    [mw |-> manager_windows, pw |-> proxy_windows,
                     fresh |-> fresh, outcome |-> "ok"])
            dangling == Dangling(st.pw, st.mw)
        IN  /\ st.outcome # "infeasible"
            /\ commands' = << >>
            /\ manager_windows' = st.mw
            /\ IF st.outcome = "panic" THEN
                    /\ proxy_windows' = st.pw
                    /\ panicked' = TRUE
                    /\ ret' = Drained("panic", commands)
               ELSE IF dangling # {} THEN
                    /\ \E done \in SUBSET ((DOMAIN st.pw) \ dangling) :
                            proxy_windows' = RefreshCache(st.pw, st.mw, done)
                    /\ panicked' = TRUE
                    /\ ret' = Drained("panic", commands)
               ELSE
                    /\ proxy_windows' = RefreshCache(st.pw, st.mw, DOMAIN st.pw)
                    /\ panicked' = FALSE
                    /\ ret' = Drained("ok", commands)
    /\ UNCHANGED <<next_id, minted, phase>>

\* main, WindowEvent::Resized: the window has the size the event reports; the
\* record of the event keeps the window and whether it was minimized before
WindowEventResized(wid, size) ==
    /\ Running
    /\ wid \in DOMAIN manager_windows
    /\ manager_windows' =
            make_window_dirty(
                [manager_windows EXCEPT ![wid].size = size,
                                        ![wid].minimized = (size = [width |-> 0, height |-> 0])],
                wid)
    /\ ret' = Returned("resized", wid, ZeroVec, manager_windows[wid].minimized)
    /\ UNCHANGED <<proxy_windows, commands, next_id, minted, panicked, phase>>

\* main, WindowEvent::CloseRequested or Escape: close_native_window, and
\* ControlFlow::Exit when it returned true; the record of the event keeps the
\* window and what close_native_window returned
WindowEventCloseRequested(wid) ==
    /\ Running
    /\ LET r == close_native_window(manager_windows, wid) IN
        /\ manager_windows' = r.windows
        /\ phase' = IF r.empty THEN "exited" ELSE phase
        /\ ret' = Returned("close_requested", wid, ZeroVec, r.empty)
    /\ UNCHANGED <<proxy_windows, commands, next_id, minted, panicked>>

\* main, Event::MainEventsCleared (and the head of RedrawEventsCleared):
\* expect_native_window(first_id)
MainEventsCleared ==
    /\ Running
    /\ IF expect_native_window(manager_windows, MainWid)
       THEN panicked' = FALSE /\ ret' = Unit("main_events_cleared", 0)
       ELSE panicked' = TRUE /\ ret' = Panic("main_events_cleared", 0)
    /\ UNCHANGED <<manager_windows, proxy_windows, commands, next_id, minted, phase>>

\* the keys draw_data cannot resolve: unknown to the Proxy, or without window
Undrawable(drawn, pw, mw) ==
    {k \in drawn : k \notin DOMAIN pw \/ pw[k].wid \notin DOMAIN mw}

\* render_all_vp: draw_data over the GUI viewports that have draw data and
\* carry the keys `drawn` (a viewport whose key is 0 is skipped); `acquired`
\* are the keys whose swap chain hands out a frame.  A key that cannot be
\* resolved panics, after the viewports the loop met before it were drawn.
RenderAllVp(drawn, acquired) ==
    /\ Running
    /\ LET keys == drawn \ {0}
           bad == Undrawable(keys, proxy_windows, manager_windows)
       IN  \E done \in SUBSET (keys \ bad) :
            /\ (bad = {}) => done = keys
            /\ manager_windows' =
                    [w \in DOMAIN manager_windows |->
                        IF \E k \in done : proxy_windows[k].wid = w
                        THEN get_current_frame(manager_windows[w], TRUE).window
                        ELSE manager_windows[w]]
            /\ panicked' = (bad # {})
            /\ ret' = [Unit("render_all_vp", 0) EXCEPT
                        !.outcome = IF bad = {} THEN "ok" ELSE "panic",
                        !.frames = [k \in done |->
                            render_callback(
                                get_current_frame(manager_windows[proxy_windows[k].wid],
                                                  k \in acquired).frame)]]
    /\ UNCHANGED <<proxy_windows, commands, next_id, minted, phase>>

\* ------------------------------------------------- wgpu.rs: the viewports
\* enum Outlet: Surface(surface), SwapChain(swap chain) or Invalid; a swap
\* chain is known by the size its descriptor was built with
Surface == [state |-> "Surface"]
SwapChain(size) == [state |-> "SwapChain", width |-> size.width, height |-> size.height]
Invalid == [state |-> "Invalid"]

\* Outlet::new
Outlet_new == Surface

\* WgpuViewport::with_surface, for a window of this inner size
WgpuViewport_with_surface(size) ==
    [size |-> size, outlet |-> Outlet_new, waits_redraw |-> FALSE]

\* a with_swap_chain that puts the swap chain back only when `fun` succeeded
with_swap_chain_losing_outlet(vp, fun) ==
    CASE vp.outlet.state = "Invalid" ->
            [vp |-> vp, ret |-> "none", panic |-> TRUE]
      [] fun = "error" ->
            [vp |-> [vp EXCEPT !.outlet = Invalid], ret |-> fun, panic |-> FALSE]
      [] OTHER ->
            [vp |-> [vp EXCEPT !.outlet = SwapChain(vp.size)], ret |-> fun, panic |-> FALSE]

\* WgpuViewport::with_swap_chain: the outlet is taken out (Invalid is left in
\* its place), a Surface is made a swap chain of the window's size, `fun` is
\* called on the swap chain and the swap chain is put back
with_swap_chain(vp, fun) ==
    CASE vp.outlet.state = "Surface" ->
            [vp |-> [vp EXCEPT !.outlet = SwapChain(vp.size)], ret |-> fun, panic |-> FALSE]
      [] vp.outlet.state = "SwapChain" ->
            [vp |-> vp, ret |-> fun, panic |-> FALSE]
      [] vp.outlet.state = "Invalid" ->
            [vp |-> [vp EXCEPT !.outlet = Invalid], ret |-> "none", panic |-> TRUE]

\* WgpuViewport::get_current_frame; `acquired` is the swap chain's answer
WgpuViewport_get_current_frame(vp, acquired) ==
    with_swap_chain(vp, IF acquired THEN "frame" ELSE "error")

\* a drop_swap_chain that keeps the swap chain
drop_swap_chain_keeping(vp) == vp

\* WgpuViewport::drop_swap_chain
drop_swap_chain(vp) ==
    IF vp.outlet.state = "SwapChain" THEN [vp EXCEPT !.outlet = Surface] ELSE vp

\* Viewport::on_resize
on_resize(vp) == drop_swap_chain(vp)

\* WgpuViewport::complete_redraw
complete_redraw(vp) == [vp EXCEPT !.waits_redraw = TRUE]

\* an on_draw that leaves the redraw pending when it drops the frame
on_draw_pending_when_dropped(vp, draw_data, acquired) ==
    LET r == WgpuViewport_get_current_frame(
                [vp EXCEPT !.waits_redraw = (vp.waits_redraw /\ ~acquired)], acquired)
    IN  [vp |-> r.vp, panic |-> r.panic,
         frame |-> CASE r.panic -> "none"
                     [] r.ret = "error" -> "dropped frame"
                     [] OTHER -> "presented",
         overlay |-> (~r.panic /\ r.ret = "frame" /\ draw_data)]

\* an on_draw that presents only what it drew the GUI into
on_draw_needing_draw_data(vp, draw_data, acquired) ==
    LET r == WgpuViewport_get_current_frame([vp EXCEPT !.waits_redraw = FALSE], acquired)
    IN  [vp |-> r.vp, panic |-> r.panic,
         frame |-> CASE r.panic -> "none"
                     [] r.ret = "error" -> "dropped frame"
                     [] ~draw_data -> "none"
                     [] OTHER -> "presented",
         overlay |-> (~r.panic /\ r.ret = "frame" /\ draw_data)]

\* Viewport::on_draw: the viewport after it, what became of the frame, and
\* whether the GUI's draw data was rendered into it
on_draw(vp, draw_data, acquired) ==
    LET r == WgpuViewport_get_current_frame([vp EXCEPT !.waits_redraw = FALSE], acquired)
    IN  [vp |-> r.vp, panic |-> r.panic,
         frame |-> CASE r.panic -> "none"
                     [] r.ret = "error" -> "dropped frame"
                     [] OTHER -> "presented",
         overlay |-> (~r.panic /\ r.ret = "frame" /\ draw_data)]

\* an add_window that replaces a viewport of the same id without a word
add_window_replacing(vps, wid, size) ==
    [viewports |-> MapPut(vps, wid, WgpuViewport_with_surface(size)), panic |-> FALSE]

\* a destroy that takes an unknown id for done
destroy_if_present(vps, wid) ==
    [viewports |-> MapRemove(vps, wid), panic |-> FALSE]

\* WgpuManager::add_window: the insert, and the panic when it replaced a viewport
add_window(vps, wid, size) ==
    [viewports |-> MapPut(vps, wid, WgpuViewport_with_surface(size)),
     panic |-> wid \in DOMAIN vps]

\* WgpuManager::destroy: the remove, and the panic of expect on None
destroy(vps, wid) ==
    [viewports |-> MapRemove(vps, wid), panic |-> wid \notin DOMAIN vps]

\* WgpuManager::request_redraws
request_redraws(vps) == [w \in DOMAIN vps |-> complete_redraw(vps[w])]

\* WgpuManager::viewports_to_redraw
viewports_to_redraw(vps) == {w \in DOMAIN vps : vps[w].waits_redraw}

\* what an operation of wgpu.rs leaves alone
ProxySide ==
    <<manager_windows, proxy_windows, commands, next_id, minted, phase, pc, focus,
      gui_keys>>

\* the outcome of an operation on the viewports
WgpuReturn(op, wid, panic) ==
    /\ panicked' = panic
    /\ ret' = IF panic THEN Panic(op, wid) ELSE Unit(op, wid)

AddWindow(wid, size) ==
    /\ ~panicked
    /\ LET r == add_window(viewports, wid, size) IN
        /\ viewports' = r.viewports
        /\ WgpuReturn("add_window", wid, r.panic)
    /\ UNCHANGED ProxySide

Destroy(wid) ==
    /\ ~panicked
    /\ LET r == destroy(viewports, wid) IN
        /\ viewports' = r.viewports
        /\ WgpuReturn("destroy", wid, r.panic)
    /\ UNCHANGED ProxySide

RequestRedraws ==
    /\ ~panicked
    /\ viewports' = request_redraws(viewports)
    /\ WgpuReturn("request_redraws", 0, FALSE)
    /\ UNCHANGED ProxySide

\* the window of viewport wid has been resized, and on_resize is called; the
\* record of the call keeps whether the outlet held a swap chain before
OnResize(wid, size) ==
    /\ ~panicked
    /\ wid \in DOMAIN viewports
    /\ viewports' = [viewports EXCEPT ![wid] = on_resize([@ EXCEPT !.size = size])]
    /\ panicked' = FALSE
    /\ ret' = Returned("on_resize", wid, ZeroVec, viewports[wid].outlet.state = "SwapChain")
    /\ UNCHANGED ProxySide

\* get_current_frame on viewport wid
GetCurrentFrame(wid, acquired) ==
    /\ ~panicked
    /\ wid \in DOMAIN viewports
    /\ LET r == WgpuViewport_get_current_frame(viewports[wid], acquired) IN
        /\ viewports' = [viewports EXCEPT ![wid] = r.vp]
        /\ panicked' = r.panic
        /\ ret' = [Unit("get_current_frame", wid) EXCEPT
                        !.outcome = IF r.panic THEN "panic" ELSE "ok",
                        !.frames = [w \in {wid} |-> r.ret]]
    /\ UNCHANGED ProxySide

\* on_draw on viewport wid, with or without draw data
OnDraw(wid, draw_data, acquired) ==
    /\ ~panicked
    /\ wid \in DOMAIN viewports
    /\ LET r == on_draw(viewports[wid], draw_data, acquired) IN
        /\ viewports' = [viewports EXCEPT ![wid] = r.vp]
        /\ panicked' = r.panic
        /\ ret' = [Unit("on_draw", wid) EXCEPT
                        !.outcome = IF r.panic THEN "panic" ELSE "ok",
                        !.flag = r.overlay,
                        !.frames = [w \in {wid} |-> r.frame]]
    /\ UNCHANGED ProxySide

\* --------------------------------------- focus_order.rs: the focus stack
\* an entry of WindowsFocusOrder: a null pointer, or an ImGuiWindow with its
\* Name, ViewportId and ViewportOwned
NullWindow == [null |-> TRUE]
ImGuiWindow(name, id, owned) ==
    [null |-> FALSE, Name |-> name, ViewportId |-> id, ViewportOwned |-> owned]
ImGuiWindows ==
    {NullWindow} \cup
    {ImGuiWindow("A", 1, o) : o \in BOOLEAN} \cup {ImGuiWindow("B", 2, o) : o \in BOOLEAN}

\* Option<Item>: None, or Some((name, ViewportId))
NoItem == [some |-> FALSE]
Item(window) == [some |-> TRUE, name |-> window.Name, key |-> window.ViewportId]

\* a next that emits every window that is not null
RECURSIVE FocusOrder_next_any_window(_)
FocusOrder_next_any_window(windows) ==
    IF windows = << >> THEN [windows |-> windows, item |-> NoItem]
    ELSE LET first == Head(windows)
             rest == Tail(windows)
         IN  IF ~first.null
             THEN [windows |-> rest, item |-> Item(first)]
             ELSE FocusOrder_next_any_window(rest)

\* a next that leaves the entry it emits in the slice
RECURSIVE FocusOrder_next_peeking(_)
FocusOrder_next_peeking(windows) ==
    IF windows = << >> THEN [windows |-> windows, item |-> NoItem]
    ELSE LET first == Head(windows)
             rest == Tail(windows)
         IN  IF ~first.null /\ first.ViewportOwned
             THEN [windows |-> windows, item |-> Item(first)]
             ELSE FocusOrder_next_peeking(rest)

\* FocusOrder::next: split_first until a window that is not null and owns its
\* viewport is found; the slice that is left, and the item
RECURSIVE FocusOrder_next(_)
FocusOrder_next(windows) ==
    IF windows = << >> THEN [windows |-> windows, item |-> NoItem]
    ELSE LET first == Head(windows)
             rest == Tail(windows)
         IN  IF ~first.null /\ first.ViewportOwned
             THEN [windows |-> rest, item |-> Item(first)]
             ELSE FocusOrder_next(rest)

\* FocusOrder::size_hint
size_hint(windows) == [lower |-> 0, upper |-> Len(windows)]

\* what an operation on the FocusOrder leaves alone
FocusApart ==
    <<manager_windows, proxy_windows, commands, next_id, minted, phase, pc,
      viewports, panicked, gui_keys>>

\* focus_order: a FocusOrder over the context's WindowsFocusOrder, here `stack`
MakeFocusOrder(stack) ==
    /\ ~panicked
    /\ focus' = [made |-> TRUE, stack |-> stack, windows |-> stack,
                 emitted |-> << >>, last |-> NoItem]
    /\ ret' = Unit("focus_order", 0)
    /\ UNCHANGED FocusApart

\* FocusOrder::next on the iterator in use
FocusOrderNext ==
    /\ ~panicked
    /\ focus.made
    /\ LET r == FocusOrder_next(focus.windows) IN
        /\ focus' = [focus EXCEPT
                        !.windows = r.windows,
                        !.emitted = IF r.item.some THEN Append(@, r.item) ELSE @,
                        !.last = r.item]
        /\ ret' = Returned("next", 0, ZeroVec, r.item.some)
    /\ UNCHANGED FocusApart

\* FocusOrder::size_hint on the iterator in use
SizeHint ==
    /\ ~panicked
    /\ focus.made
    /\ focus' = [focus EXCEPT !.last = size_hint(focus.windows)]
    /\ ret' = Unit("size_hint", 0)
    /\ UNCHANGED FocusApart

\* ------------------------------------------------------- specifications
\* the bounds of a specification: room in the queue, keys left to mint
CanQueue(limit) == Len(commands) < limit
CanMint(limit) == next_id <= limit

\* main's position in the loop, the viewports of WgpuManager and the
\* FocusOrder, which no action of the Proxy or the Manager mentions; and with
\* them the keys the GUI's viewports carry, which only register_platform and
\* its callbacks write
Apart == <<pc, viewports, focus>>
Elsewhere == <<pc, viewports, focus, gui_keys>>

\* Spec: every enqueueing method of the Proxy, and the drain
Next ==
    \/ UNCHANGED Apart /\ RegisterPlatform
    \/ UNCHANGED Elsewhere /\ CanQueue(MaxPending) /\ CanMint(MaxKey) /\ CreateWindow(TRUE)
    \/ UNCHANGED Elsewhere /\ CanQueue(MaxPending) /\ \E k \in Keys : DestroyWindow(k)
    \/ UNCHANGED Elsewhere /\ CanQueue(MaxPending) /\ \E k \in Keys : ShowWindow(k)
    \/ UNCHANGED Elsewhere /\ CanQueue(MaxPending) /\ \E k \in Keys : SetPosition(k, OneVec)
    \/ UNCHANGED Elsewhere /\ CanQueue(MaxPending) /\ \E k \in Keys : SetSize(k, OneVec)
    \/ UNCHANGED Elsewhere /\ CanQueue(MaxPending) /\ \E k \in Keys : SetFocus(k)
    \/ UNCHANGED Elsewhere /\ CanQueue(MaxPending) /\ \E k \in Keys : SetTitle(k, OneTitle)
    \/ UNCHANGED Elsewhere /\ Update(WindowIds)

Spec == Init /\ [][Next]_vars

\* SpecGeometry: the main window's geometry, written through the queue,
\* changed by the operating system, and read back through the cache
NextGeometry ==
    \/ UNCHANGED Apart /\ RegisterPlatform
    \/ UNCHANGED Elsewhere /\ CanQueue(MaxQueue) /\ \E k \in Keys, v \in Vecs : SetPosition(k, v)
    \/ UNCHANGED Elsewhere /\ CanQueue(MaxQueue) /\ \E k \in Keys, v \in Vecs : SetSize(k, v)
    \/ UNCHANGED Elsewhere /\ \E k \in Keys : GetPosition(k)
    \/ UNCHANGED Elsewhere /\ \E k \in Keys : GetSize(k)
    \/ UNCHANGED Elsewhere /\ \E k \in Keys : GetFocus(k)
    \/ UNCHANGED Elsewhere /\ \E k \in Keys : GetMinimized(k)
    \/ UNCHANGED Elsewhere /\ Update(WindowIds)
    \/ UNCHANGED Elsewhere /\ \E w \in WindowIds, s \in EventSizes : WindowEventResized(w, s)

SpecGeometry == Init /\ [][NextGeometry]_vars

\* SpecLifecycle: windows created, destroyed and closed
NextLifecycle ==
    \/ UNCHANGED Apart /\ RegisterPlatform
    \/ UNCHANGED Elsewhere /\ CanQueue(MaxQueue) /\ CanMint(MaxKey) /\ \E d \in BOOLEAN : CreateWindow(d)
    \/ UNCHANGED Elsewhere /\ CanQueue(MaxQueue) /\ \E k \in Keys : DestroyWindow(k)
    \/ UNCHANGED Elsewhere /\ \E k \in Keys : GetPosition(k)
    \/ UNCHANGED Elsewhere /\ \E k \in Keys : GetSize(k)
    \/ UNCHANGED Elsewhere /\ \E k \in Keys : GetFocus(k)
    \/ UNCHANGED Elsewhere /\ \E k \in Keys : GetMinimized(k)
    \/ UNCHANGED Elsewhere /\ Update(WindowIds)
    \/ UNCHANGED Elsewhere /\ \E w \in WindowIds : WindowEventCloseRequested(w)

SpecLifecycle == Init /\ [][NextLifecycle]_vars

\* SpecFrame: main's event loop.  Window events arrive between frames; a
\* frame is MainEventsCleared, then RedrawEventsCleared: update, the GUI's
\* callbacks of the layout pass, update, the callbacks of
\* igUpdatePlatformWindows, update, render_all_vp.
Step(from, to) == pc = from /\ pc' = to
InCallbacksAndAfter == pc \in {"layout", "platform", "render"}
InCallbacks == pc \in {"layout", "platform"}

NextFrame ==
    \/ UNCHANGED Apart /\ RegisterPlatform
    \/ UNCHANGED Elsewhere /\ pc = "events"
            /\ \E w \in WindowIds : WindowEventCloseRequested(w)
    \/ Step("events", "frame") /\ UNCHANGED <<viewports, focus, gui_keys>> /\ MainEventsCleared
    \/ Step("frame", "layout") /\ UNCHANGED <<viewports, focus, gui_keys>> /\ Update(WindowIds)
    \/ UNCHANGED Apart /\ InCallbacks /\ CanQueue(MaxQueue) /\ CanMint(MaxKey)
            /\ Platform_CreateWindow(TRUE)
    \/ UNCHANGED Apart /\ InCallbacks /\ CanQueue(MaxQueue)
            /\ \E k \in Keys : Platform_DestroyWindow(k)
    \/ UNCHANGED Elsewhere /\ InCallbacks /\ \E k \in gui_keys : GetSize(k)
    \/ Step("layout", "platform") /\ UNCHANGED <<viewports, focus, gui_keys>> /\ Update(WindowIds)
    \/ Step("platform", "render") /\ UNCHANGED <<viewports, focus, gui_keys>> /\ Update(WindowIds)
    \/ Step("render", "events") /\ UNCHANGED <<viewports, focus, gui_keys>>
            /\ \E drawn \in SUBSET gui_keys : \E acquired \in SUBSET drawn :
                    RenderAllVp(drawn, acquired)

SpecFrame == Init /\ [][NextFrame]_vars

\* SpecSurface: what a window is drawn into.  The viewports of WgpuManager
\* are added, resized, drawn and destroyed; the main window of the old
\* Manager is resized by the operating system and drawn by render_all_vp.
ViewportIds == 1..MaxKey
ViewportSizes == { [width |-> 8, height |-> 6], [width |-> 4, height |-> 3] }
SurfaceSizes == ViewportSizes \cup { [width |-> 0, height |-> 0] }

NextSurface ==
    \/ UNCHANGED Apart /\ RegisterPlatform
    \/ UNCHANGED Elsewhere /\ \E s \in SurfaceSizes : WindowEventResized(MainWid, s)
    \/ UNCHANGED Elsewhere /\ \E drawn \in SUBSET {1} : \E acquired \in SUBSET drawn :
            RenderAllVp(drawn, acquired)
    \/ \E w \in ViewportIds, s \in ViewportSizes : AddWindow(w, s)
    \/ \E w \in ViewportIds : Destroy(w)
    \/ RequestRedraws
    \/ \E w \in ViewportIds, s \in ViewportSizes : OnResize(w, s)
    \/ \E w \in ViewportIds, a \in BOOLEAN : GetCurrentFrame(w, a)
    \/ \E w \in ViewportIds, d \in BOOLEAN, a \in BOOLEAN : OnDraw(w, d, a)

SpecSurface == Init /\ [][NextSurface]_vars

\* SpecPass: windows created, and the calls the GUI makes on a new viewport
\* in the pass that creates it, before the drain gives its key a window; the
\* queue has room for a CreateWindow and MaxQueue commands after it
NewKeys == gui_keys \ DOMAIN proxy_windows

NextPass ==
    \/ UNCHANGED Apart /\ RegisterPlatform
    \/ UNCHANGED Apart /\ CanQueue(MaxQueue) /\ CanMint(MaxKey)
            /\ \E d \in BOOLEAN : Platform_CreateWindow(d)
    \/ UNCHANGED Elsewhere /\ CanQueue(MaxQueue + 1) /\ \E k \in NewKeys : ShowWindow(k)
    \/ UNCHANGED Elsewhere /\ CanQueue(MaxQueue + 1)
            /\ \E k \in NewKeys, v \in Vecs : SetPosition(k, v)
    \/ UNCHANGED Elsewhere /\ CanQueue(MaxQueue + 1)
            /\ \E k \in NewKeys, v \in Vecs : SetSize(k, v)
    \/ UNCHANGED Elsewhere /\ CanQueue(MaxQueue + 1)
            /\ \E k \in NewKeys, t \in Titles : SetTitle(k, t)
    \/ UNCHANGED Elsewhere /\ Update(WindowIds)

SpecPass == Init /\ [][NextPass]_vars

\* SpecDrain: the main viewport and one more; every kind of command on their
\* windows, drained, and render_all_vp, which builds the swap chains, once
\* the queue is drained
OnlyMainViewport == Cardinality(gui_keys) = Cardinality({MainWid})

NextDrain ==
    \/ UNCHANGED Apart /\ RegisterPlatform
    \/ UNCHANGED Apart /\ CanQueue(MaxPending) /\ OnlyMainViewport /\ Platform_CreateWindow(TRUE)
    \/ UNCHANGED Elsewhere /\ CanQueue(MaxPending) /\ \E k \in gui_keys : ShowWindow(k)
    \/ UNCHANGED Elsewhere /\ CanQueue(MaxPending) /\ \E k \in gui_keys : SetPosition(k, OneVec)
    \/ UNCHANGED Elsewhere /\ CanQueue(MaxPending) /\ \E k \in gui_keys : SetSize(k, OneVec)
    \/ UNCHANGED Elsewhere /\ CanQueue(MaxPending) /\ \E k \in gui_keys : SetFocus(k)
    \/ UNCHANGED Elsewhere /\ CanQueue(MaxPending) /\ \E k \in gui_keys : SetTitle(k, OneTitle)
    \/ UNCHANGED Elsewhere /\ Update(WindowIds)
    \/ UNCHANGED Elsewhere /\ commands = << >>
            /\ \E drawn \in SUBSET gui_keys : \E acquired \in SUBSET drawn :
                    RenderAllVp(drawn, acquired)

SpecDrain == Init /\ [][NextDrain]_vars

\* SpecMint: windows created and destroyed until the key counter has gone
\* through every value of a Key and one more
NextMint ==
    \/ UNCHANGED Apart /\ RegisterPlatform
    \/ UNCHANGED Elsewhere /\ CanQueue(MaxPending) /\ Len(minted) <= KeyModulus
            /\ CreateWindow(TRUE)
    \/ UNCHANGED Elsewhere /\ CanQueue(MaxPending)
            /\ \E k \in DOMAIN proxy_windows : DestroyWindow(k)
    \/ UNCHANGED Elsewhere /\ Update(WindowIds)

SpecMint == Init /\ [][NextMint]_vars

\* SpecFocus: a FocusOrder made over any focus stack the GUI can have, and
\* followed from its making for as long as it is read
RECURSIVE SeqsUpTo(_, _)
SeqsUpTo(S, n) ==
    IF n = 0 THEN {<< >>}
    ELSE LET shorter == SeqsUpTo(S, n - 1) IN
            shorter \cup {Append(q, x) : q \in shorter, x \in S}
FocusStacks == SeqsUpTo(ImGuiWindows, MaxStack)

NextFocus ==
    \/ ~focus.made /\ \E stack \in FocusStacks : MakeFocusOrder(stack)
    \/ FocusOrderNext
    \/ SizeHint

SpecFocus == Init /\ [][NextFocus]_vars

\* =================================================================== claims
\* a step of Proxy::update that found commands in the queue
DrainStep == commands # << >> /\ ret'.op = "update"

\* the index of the last command of `kind` for `key` among the first n, or 0
LastOf(cmds, n, key, kind) ==
    LET I == {i \in 1..n : cmds[i].key = key /\ cmds[i].kind = kind}
    IN  IF I = {} THEN 0 ELSE CHOOSE i \in I : \A j \in I : j <= i

\* the number of commands a drain applies when no window is created, destroyed
\* or closed: all of them, or those before the first whose key is unknown
AppliedCount(cmds, pw) ==
    LET Bad == {i \in 1..Len(cmds) : cmds[i].key \notin DOMAIN pw}
    IN  IF Bad = {} THEN Len(cmds) ELSE (CHOOSE i \in Bad : \A j \in Bad : i <= j) - 1

\* C1: the drain applies the queued commands in the order they were enqueued:
\* after it, each window has the position and the size of the last SetPos and
\* SetSize applied to its key (a later command overrides an earlier one, never
\* the reverse), the commands before a failing one are applied and none after
\* it; and a step that enqueues a command applies nothing to the windows.
C1_DrainIsFifo ==
    [][ /\ DrainStep =>
            LET n == AppliedCount(commands, proxy_windows) IN
            /\ panicked' = (n < Len(commands))
            /\ \A k \in DOMAIN proxy_windows :
                LET w == manager_windows'[proxy_windows[k].wid]
                    old == manager_windows[proxy_windows[k].wid]
                    p == LastOf(commands, n, k, "SetPos")
                    z == LastOf(commands, n, k, "SetSize")
                IN  /\ w.pos = IF p = 0 THEN old.pos ELSE ToPhysicalPosition(commands[p].vec)
                    /\ w.size = IF z = 0 THEN old.size ELSE ToPhysicalSize(commands[z].vec)
        /\ Len(commands') > Len(commands) =>
            /\ manager_windows' = manager_windows
            /\ commands' = Append(commands, commands'[Len(commands')])
      ]_vars

\* C1 witness: a drain has applied two SetPos commands with different
\* positions to the main window, and the window has the second one
C1_Witness ==
    /\ ret.op = "update" /\ ~panicked
    /\ Len(ret.drained) = 2
    /\ \A i \in 1..2 : ret.drained[i].kind = "SetPos" /\ ret.drained[i].key = 1
    /\ ret.drained[1].vec # ret.drained[2].vec
    /\ manager_windows[MainWid].pos = ToPhysicalPosition(ret.drained[2].vec)

EnqueueOps ==
    {"create_window", "destroy_window", "show_window", "set_position",
     "set_size", "set_focus", "set_title"}

\* a step of one of the enqueueing methods, and the command it pushed
EnqueueStep == Len(commands') = Len(commands) + 1
Pushed == commands'[Len(commands')]

\* C2: the enqueueing methods never change the Window Manager: the set of
\* windows and every field of every window stay as they were; the step appends
\* exactly one command to the queue, and in the Proxy's map it can at most
\* clear the cache entry of the command's key.
C2_EnqueueLeavesManager ==
    [][ EnqueueStep =>
            /\ ret'.op \in EnqueueOps
            /\ manager_windows' = manager_windows
            /\ commands' = Append(commands, Pushed)
            /\ DOMAIN proxy_windows' = DOMAIN proxy_windows
            /\ \A k \in DOMAIN proxy_windows :
                \/ proxy_windows'[k] = proxy_windows[k]
                \/ /\ k = Pushed.key
                   /\ proxy_windows'[k] = Cache(proxy_windows[k].wid, None)
      ]_vars

\* C2 witness: set_size was called for the key of a created window while two
\* windows exist, one of them already resized by an earlier drain
C2_Witness ==
    /\ ret.op = "set_size"
    /\ Len(commands) = 1 /\ commands[1].key = 2
    /\ DOMAIN manager_windows = {1, 2}
    /\ 2 \in DOMAIN proxy_windows
    /\ manager_windows[proxy_windows[2].wid].size # DefaultSize

\* C6 as stated: show_window, set_focus and set_title leave the cache entry of
\* their key as it was; only set_position and set_size clear it.
C6_Original ==
    [][ EnqueueStep /\ ret'.op \in {"show_window", "set_focus", "set_title"}
            => proxy_windows' = proxy_windows ]_vars

\* C6 amended: show_window and set_title leave every cache entry as it was
\* (a populated entry stays populated with the same values); set_position,
\* set_size and set_focus clear the entry of their key, when the Proxy holds one.
C6_ShowAndTitleKeepCache ==
    [][ EnqueueStep =>
            /\ ret'.op \in {"show_window", "set_title"} => proxy_windows' = proxy_windows
            /\ ret'.op \in {"set_position", "set_size", "set_focus"} =>
                    /\ DOMAIN proxy_windows' = DOMAIN proxy_windows
                    /\ \A k \in DOMAIN proxy_windows :
                        proxy_windows'[k] =
                            IF k = Pushed.key THEN Cache(proxy_windows[k].wid, None)
                            ELSE proxy_windows[k]
      ]_vars

\* C6 witness: set_title was called for a key whose entry is populated, and
\* the entry is still populated
C6_Witness ==
    /\ ret.op = "set_title"
    /\ Len(commands) = 1 /\ commands[1].key = 1
    /\ HasData(proxy_windows, 1)

MintOps == {"create_window", "use_window"}
GetOps == {"get_position", "get_size", "get_focus", "get_minimized"}

\* C3: the i-th key the Proxy mints is i: the first is 1 and each one is the
\* previous plus one, so the keys are strictly increasing, distinct and never
\* 0; the key a minting method returns is the one just minted, and it is the
\* key of the CreateWindow command create_window queued.
C3_KeysAreSequential ==
    /\ \A i \in 1..Len(minted) : minted[i] = i
    /\ ret.op \in MintOps => ret.key = minted[Len(minted)] /\ ret.key # 0
    /\ ret.op = "create_window" =>
            /\ commands[Len(commands)].key = ret.key
            /\ commands[Len(commands)].kind = "CreateWindow"

\* C3 witness: create_window has returned the second key, after use_window
\* returned the first
C3_Witness ==
    /\ ret.op = "create_window" /\ ret.key = 2
    /\ minted = <<1, 2>>

\* C4: a getter asked about a key whose cache entry is absent (the Proxy does
\* not hold the key, or holds it with data = None) fails with the panic of
\* expect_data_from_key, and returns no value.
C4_AbsentEntryFails ==
    (ret.op \in GetOps /\ ~HasData(proxy_windows, ret.key)) =>
        (ret.outcome = "panic" /\ panicked)

\* C4 witness: get_size failed for the main window's key, which the Proxy
\* holds with data = None
C4_Witness ==
    /\ ret = Panic("get_size", 1)
    /\ 1 \in DOMAIN proxy_windows /\ ~proxy_windows[1].data.some
    /\ panicked

\* the four getters fail for key
AllGettersFail(pw, key) ==
    /\ get_position(pw, key).outcome = "panic"
    /\ get_size(pw, key).outcome = "panic"
    /\ get_focus(pw, key).outcome = "panic"
    /\ get_minimized(pw, key).outcome = "panic"

\* what the cache of a window with these native values holds
Snapshot(window) ==
    [ some |-> TRUE,
      size |-> [x |-> 2 * window.size.width, y |-> 2 * window.size.height],
      pos |-> [x |-> 2 * window.pos.x, y |-> 2 * window.pos.y],
      focus |-> window.focus,
      minimized |-> window.minimized ]

\* C5: set_size and set_position on a key the Proxy holds leave its cache
\* entry absent at once; while a SetSize or SetPos command for a key is in the
\* queue (until the next drain) the entry is absent and the four getters fail
\* for the key; after the drain that applies SetSize, the window has the
\* requested size (rounded, negative values as 0) and get_size returns exactly
\* the window's size.
C5_DirtyUntilDrain ==
    [][ /\ (EnqueueStep /\ ret'.op \in {"set_size", "set_position"}) =>
                ~HasData(proxy_windows', Pushed.key)
        /\ \A i \in 1..Len(commands') :
                commands'[i].kind \in {"SetSize", "SetPos"} =>
                    AllGettersFail(proxy_windows', commands'[i].key)
        /\ (DrainStep /\ ~panicked') =>
                \A k \in DOMAIN proxy_windows' :
                    LET z == LastOf(commands, Len(commands), k, "SetSize")
                        w == manager_windows'[proxy_windows'[k].wid]
                    IN  z # 0 =>
                            /\ w.size = ToPhysicalSize(commands[z].vec)
                            /\ get_size(proxy_windows', k) =
                                 Returned("get_size", k,
                                          [x |-> 2 * w.size.width, y |-> 2 * w.size.height],
                                          FALSE)
      ]_vars

\* C5 witness: an earlier drain moved the main window and populated its entry;
\* then set_size(1, (-1.5, 2.5)) alone was queued and drained: the window is
\* 0 x 3 and get_size answers (0.0, 3.0)
C5_Witness ==
    /\ ret.op = "update" /\ ~panicked
    /\ ret.drained = << Command(1, "SetSize", FALSE, [x |-> -3, y |-> 5], "") >>
    /\ manager_windows[MainWid].pos # DefaultPos
    /\ manager_windows[MainWid].size = [width |-> 0, height |-> 3]
    /\ get_size(proxy_windows, 1).vec = [x |-> 0, y |-> 6]

\* C7: when update returns, the queue is empty and every key the Proxy holds
\* has a populated cache entry whose position, size, focus and minimized
\* values are those of the window the Manager holds under the key's id.
C7_DrainRefreshesCache ==
    (ret.op = "update" /\ ret.outcome = "ok") =>
        /\ commands = << >>
        /\ ~panicked
        /\ \A k \in DOMAIN proxy_windows :
                /\ proxy_windows[k].wid \in DOMAIN manager_windows
                /\ proxy_windows[k].data = Snapshot(manager_windows[proxy_windows[k].wid])

\* C7 witness: update returned after the main window was resized to 0 x 0,
\* and the cache shows it minimized with size (0.0, 0.0)
C7_Witness ==
    /\ ret.op = "update" /\ ret.outcome = "ok"
    /\ manager_windows[MainWid].minimized
    /\ manager_windows[MainWid].pos # DefaultPos
    /\ proxy_windows[1].data.minimized
    /\ proxy_windows[1].data.size = ZeroVec

\* C8: a drain that finds the queue empty leaves the Manager's windows, the
\* Proxy's key-to-window associations and the key counter as they were, and
\* leaves every entry populated with the window's current values; when the
\* previous operation was itself a drain that returned, it changes nothing
\* at all in the Proxy and the Manager.
C8_EmptyDrainOnlyRefreshes ==
    [][ (ret'.op = "update" /\ commands = << >>) =>
            /\ manager_windows' = manager_windows
            /\ next_id' = next_id
            /\ commands' = << >>
            /\ DOMAIN proxy_windows' = DOMAIN proxy_windows
            /\ \A k \in DOMAIN proxy_windows :
                    /\ proxy_windows'[k].wid = proxy_windows[k].wid
                    /\ ~panicked' =>
                         proxy_windows'[k].data = Snapshot(manager_windows[proxy_windows[k].wid])
            /\ (ret.op = "update" /\ ret.outcome = "ok") =>
                    proxy_windows' = proxy_windows
      ]_vars

\* C8 witness: update found the queue empty and returned, with the main
\* window resized by the operating system since it was created
C8_Witness ==
    /\ ret = Drained("ok", << >>)
    /\ manager_windows[MainWid].minimized
    /\ HasData(proxy_windows, 1)

\* the keys of the commands of `kind` in cmds
KeysOf(cmds, kind) == {cmds[i].key : i \in {j \in 1..Len(cmds) : cmds[j].kind = kind}}

\* each destroy in cmds targets a key the Proxy holds or a key created earlier
\* in cmds, and no key is destroyed twice
DestroysAreValid(cmds, pw) ==
    \A i \in 1..Len(cmds) :
        cmds[i].kind = "DestroyWindow" =>
            /\ \/ cmds[i].key \in DOMAIN pw
               \/ \E j \in 1..(i - 1) :
                    cmds[j].kind = "CreateWindow" /\ cmds[j].key = cmds[i].key
            /\ \A j \in 1..Len(cmds) :
                    (cmds[j].kind = "DestroyWindow" /\ cmds[j].key = cmds[i].key) => j = i

\* C9: a drain of create and destroy commands (each destroy for a key that is
\* held or was created earlier in the queue, at most one per key), when it
\* returns, leaves in the Manager the windows it had, minus those of the
\* destroyed keys, plus one window for each key created and not destroyed; a
\* key created and destroyed in the same queue leaves no window and no
\* association.
C9_NetEffectOfCreatesAndDestroys ==
    [][ (DrainStep /\ ret'.outcome = "ok"
                   /\ DestroysAreValid(commands, proxy_windows)
                   /\ \A i \in 1..Len(commands) :
                        commands[i].kind \in {"CreateWindow", "DestroyWindow"}) =>
            LET created == KeysOf(commands, "CreateWindow")
                destroyed == KeysOf(commands, "DestroyWindow")
                kept == created \ destroyed
                gone == {proxy_windows[k].wid : k \in destroyed \cap DOMAIN proxy_windows}
                fresh == {proxy_windows'[k].wid : k \in kept}
            IN  /\ kept \subseteq DOMAIN proxy_windows'
                /\ DOMAIN proxy_windows' = ((DOMAIN proxy_windows) \ destroyed) \cup kept
                /\ DOMAIN manager_windows' = ((DOMAIN manager_windows) \ gone) \cup fresh
                /\ Cardinality(fresh) = Cardinality(kept)
                /\ Cardinality(DOMAIN manager_windows') =
                        Cardinality((DOMAIN manager_windows) \ gone) + Cardinality(kept)
      ]_vars

\* C9 witness: a drain took create_window -> 2 and destroy_window(2) in one
\* queue; only the main window is left and key 2 has no association
C9_Witness ==
    /\ ret.op = "update" /\ ret.outcome = "ok"
    /\ Len(ret.drained) = 2
    /\ ret.drained[1].kind = "CreateWindow" /\ ret.drained[1].key = 2
    /\ ret.drained[2].kind = "DestroyWindow" /\ ret.drained[2].key = 2
    /\ DOMAIN manager_windows = {MainWid}
    /\ DOMAIN proxy_windows = {1}

\* the commands of a drain that the loop reached: all of them, or those up to
\* and including the first destroy of a key the Proxy does not hold then
RECURSIVE Reached(_, _)
Reached(cmds, held) ==
    IF cmds = << >> THEN 0
    ELSE LET c == Head(cmds) IN
         IF c.kind = "CreateWindow" THEN 1 + Reached(Tail(cmds), held \cup {c.key})
         ELSE IF c.key \notin held THEN 1
         ELSE 1 + Reached(Tail(cmds),
                          IF c.kind = "DestroyWindow" THEN held \ {c.key} ELSE held)

\* C10: after the drain that takes destroy_window(key), the first command
\* queued for a key the Proxy holds, the Proxy has no association and no cache
\* entry for the key, the Manager holds no window under the id the key had
\* (unless a window created later in the same drain was given that id), and
\* the four getters fail for
\* the key; a minted key the Proxy no longer holds, and that no queued
\* CreateWindow will bring, never comes back, so they fail ever after.
C10_DestroyedKeyIsGone ==
    [][ /\ DrainStep =>
            \A i \in 1..Reached(commands, DOMAIN proxy_windows) :
                LET k == commands[i].key IN
                (/\ commands[i].kind = "DestroyWindow"
                 /\ k \in DOMAIN proxy_windows
                 /\ \A j \in 1..(i - 1) : commands[j].key # k) =>
                    /\ k \notin DOMAIN proxy_windows'
                    /\ AllGettersFail(proxy_windows', k)
                    /\ \/ proxy_windows[k].wid \notin DOMAIN manager_windows'
                       \/ \E j \in (i + 1)..Len(commands) :
                            /\ commands[j].kind = "CreateWindow"
                            /\ commands[j].key \in DOMAIN proxy_windows'
                            /\ proxy_windows'[commands[j].key].wid = proxy_windows[k].wid
        /\ \A k \in 1..(next_id - 1) :
            (k \notin DOMAIN proxy_windows /\ k \notin KeysOf(commands, "CreateWindow")) =>
                (k \notin DOMAIN proxy_windows' /\ AllGettersFail(proxy_windows', k))
      ]_vars

\* C10 witness: get_position failed for key 2, whose window an earlier drain
\* had created and a later drain destroyed
C10_Witness ==
    /\ ret = Panic("get_position", 2)
    /\ next_id > 2
    /\ 2 \notin DOMAIN proxy_windows
    /\ commands = << >>
    /\ DOMAIN manager_windows = {MainWid}
    /\ HasData(proxy_windows, 1)

\* a DestroyWindow command for key waits in the queue
DestroyQueued(cmds, key) ==
    \E i \in 1..Len(cmds) : cmds[i].kind = "DestroyWindow" /\ cmds[i].key = key

\* C11 as stated: once destroy_window(key) is queued and until the drain, an
\* operation on the same key fails when it is attempted: no enqueueing method
\* other than create_window pushes a command for the key, and no getter
\* returns a value for it.
C11_RejectedAfterDestroy ==
    [][ /\ (EnqueueStep /\ ret'.op # "create_window") =>
                ~DestroyQueued(commands, Pushed.key)
        /\ (ret'.op \in GetOps /\ DestroyQueued(commands, ret'.key)) =>
                ret'.outcome = "panic"
      ]_vars

\* C11 witness: with destroy_window(1) and a second destroy_window(1) in the
\* queue, get_position(1) returned the cached position of the main window
C11_Witness ==
    /\ ret = Returned("get_position", 1, ZeroVec, FALSE)
    /\ Len(commands) = 2
    /\ \A i \in 1..2 : commands[i].kind = "DestroyWindow" /\ commands[i].key = 1
    /\ HasData(proxy_windows, 1)
    /\ ~panicked

\* C12: the Proxy's map from keys to window ids is one-to-one: it is a
\* function of the key, and no two keys it holds have the same window id.
C12_KeysAndIdsOneToOne ==
    \A k1, k2 \in DOMAIN proxy_windows :
        proxy_windows[k1].wid = proxy_windows[k2].wid => k1 = k2

\* C12 witness: in a later frame than the one that created it, the Proxy
\* holds the main window's key and a second key, each with a window of its
\* own, and both were drawn
C12_Witness ==
    /\ ret.op = "render_all_vp" /\ ret.outcome = "ok"
    /\ DOMAIN ret.frames = {1, 2}
    /\ DOMAIN proxy_windows = {1, 2}
    /\ DOMAIN manager_windows = {proxy_windows[1].wid, proxy_windows[2].wid}
    /\ \A k \in {1, 2} : manager_windows[proxy_windows[k].wid].swap_chain

\* the key of a queued CreateWindow is unknown to the Proxy: it has no window
\* and no cache entry, and the four getters fail for it
Unborn(cmds, pw) ==
    \A i \in 1..Len(cmds) :
        cmds[i].kind = "CreateWindow" =>
            (cmds[i].key \notin DOMAIN pw /\ AllGettersFail(pw, cmds[i].key))

\* a later command of cmds destroys the key of command i
DestroyedAfter(cmds, i) ==
    \E j \in (i + 1)..Len(cmds) :
        cmds[j].kind = "DestroyWindow" /\ cmds[j].key = cmds[i].key

\* after the drain of cmds, the key of its CreateWindow command i has a window
\* of its own, as spawn_native_window makes it, under an id that was free or
\* was freed earlier in the drain, and a cache entry read from that window
Materialized(cmds, i, pw, mw, pw2, mw2) ==
    LET k == cmds[i].key IN
    /\ HasData(pw2, k)
    /\ pw2[k].wid \in DOMAIN mw2
    /\ mw2[pw2[k].wid] = NativeWindow_with_surface(cmds[i].decorations, "winit window")
    /\ pw2[k].data = Snapshot(mw2[pw2[k].wid])
    /\ \/ pw2[k].wid \notin DOMAIN mw
       \/ \E j \in 1..(i - 1) :
            /\ cmds[j].kind = "DestroyWindow" /\ cmds[j].key \in DOMAIN pw
            /\ pw[cmds[j].key].wid = pw2[k].wid
    /\ \A j \in 1..Len(cmds) :
            (cmds[j].kind = "CreateWindow" /\ j # i /\ cmds[j].key \in DOMAIN pw2)
                => pw2[cmds[j].key].wid # pw2[k].wid

\* C13 as stated: from create_window until the next drain the key has no
\* window and no cache entry and the Manager gains no window; after the drain,
\* when it returns, every key the queue created has one new window and a
\* populated cache entry.
C13_Original ==
    [][ /\ Unborn(commands', proxy_windows')
        /\ ret'.op # "update" => DOMAIN manager_windows' \subseteq DOMAIN manager_windows
        /\ (DrainStep /\ ret'.outcome = "ok") =>
                \A i \in 1..Len(commands) :
                    commands[i].kind = "CreateWindow" =>
                        Materialized(commands, i, proxy_windows, manager_windows,
                                     proxy_windows', manager_windows')
      ]_vars

\* C13 amended: the same, for a key that no destroy_window queued before the
\* drain takes away again; a key created and destroyed in one queue has no
\* association and no cache entry after the drain.
C13_CreatedKeyMaterializesAtDrain ==
    [][ /\ Unborn(commands', proxy_windows')
        /\ ret'.op # "update" => DOMAIN manager_windows' \subseteq DOMAIN manager_windows
        /\ (DrainStep /\ ret'.outcome = "ok") =>
                \A i \in 1..Len(commands) :
                    commands[i].kind = "CreateWindow" =>
                        IF DestroyedAfter(commands, i)
                        THEN /\ commands[i].key \notin DOMAIN proxy_windows'
                             /\ AllGettersFail(proxy_windows', commands[i].key)
                        ELSE Materialized(commands, i, proxy_windows, manager_windows,
                                          proxy_windows', manager_windows')
      ]_vars

\* C13 witness: the drain of create_window(no decorations) -> 2 returned: key
\* 2 has an undecorated window and get_size answers for it
C13_Witness ==
    /\ ret = Drained("ok", << Command(2, "CreateWindow", FALSE, ZeroVec, "") >>)
    /\ HasData(proxy_windows, 2)
    /\ ~manager_windows[proxy_windows[2].wid].decorations
    /\ get_size(proxy_windows, 2).vec = [x |-> 16, y |-> 12]

\* every viewport but the one under wid is as it was
OthersUnchanged(wid) ==
    \A w \in (DOMAIN viewports) \ {wid} :
        w \in DOMAIN viewports' /\ viewports'[w] = viewports[w]

\* C14: add_window panics when a viewport is already stored under the
\* window's id; otherwise it returns the id, the collection gains exactly that
\* id, the new viewport has its outlet in state Surface and waits_redraw
\* false, and every other viewport is as it was.
C14_AddWindow ==
    [][ ret'.op = "add_window" =>
            IF ret'.key \in DOMAIN viewports
            THEN panicked' /\ ret'.outcome = "panic"
            ELSE /\ ~panicked' /\ ret'.outcome = "ok"
                 /\ DOMAIN viewports' = (DOMAIN viewports) \cup {ret'.key}
                 /\ viewports'[ret'.key].outlet = Surface
                 /\ viewports'[ret'.key].waits_redraw = FALSE
                 /\ OthersUnchanged(ret'.key)
      ]_vars

\* C14 witness: add_window returned 2 while viewport 1 holds a swap chain and
\* waits for a redraw
C14_Witness ==
    /\ ret = Unit("add_window", 2)
    /\ DOMAIN viewports = {1, 2}
    /\ viewports[1].outlet.state = "SwapChain" /\ viewports[1].waits_redraw
    /\ viewports[2] = WgpuViewport_with_surface([width |-> 4, height |-> 3])

\* C15: destroy(id) removes the viewport stored under id and nothing else;
\* when no viewport is stored under id it panics ("No window to destroy") and
\* the collection is as it was.
C15_Destroy ==
    [][ ret'.op = "destroy" =>
            IF ret'.key \in DOMAIN viewports
            THEN /\ ~panicked' /\ ret'.outcome = "ok"
                 /\ DOMAIN viewports' = (DOMAIN viewports) \ {ret'.key}
                 /\ OthersUnchanged(ret'.key)
            ELSE /\ panicked' /\ ret'.outcome = "panic"
                 /\ viewports' = viewports
      ]_vars

\* C15 witness: destroy(1) returned, and viewport 2, which holds a swap chain
\* and waits for a redraw, is still there
C15_Witness ==
    /\ ret = Unit("destroy", 1)
    /\ DOMAIN viewports = {2}
    /\ viewports[2].outlet.state = "SwapChain" /\ viewports[2].waits_redraw

\* the operations that acquire a frame from a viewport
AcquireOps == {"on_draw", "get_current_frame"}

C17_NeverInvalid ==
    /\ \A w \in DOMAIN viewports : viewports[w].outlet.state \in {"Surface", "SwapChain"}
    /\ ret.op \in AcquireOps => (ret.outcome = "ok" /\ ~panicked)

\* C17 witness: a draw of viewport 1 dropped its frame, and the outlet is a
\* swap chain all the same
C17_Witness ==
    /\ ret.op = "on_draw" /\ ret.key = 1 /\ ret.frames[1] = "dropped frame"
    /\ viewports[1].outlet.state = "SwapChain"
    /\ viewports[1].size = [width |-> 4, height |-> 3]

\* C18: when the frame acquisition of a draw fails on a viewport whose outlet
\* is in state Surface, the draw returns without a panic, the viewport stays
\* in the collection, and the outlet is left in state Surface.
C18_FailedAcquisitionKeepsSurface ==
    [][ ( /\ ret'.op = "on_draw"
          /\ viewports[ret'.key].outlet = Surface
          /\ ret'.frames[ret'.key] = "dropped frame" ) =>
            /\ ~panicked'
            /\ ret'.key \in DOMAIN viewports'
            /\ viewports'[ret'.key].outlet = Surface
      ]_vars

\* C18, what the draw does leave: no panic, the viewport in place, no redraw
\* pending, and the swap chain built for the attempt in the outlet
C18_FailedAcquisitionKeepsSwapChain ==
    [][ ( /\ ret'.op = "on_draw"
          /\ viewports[ret'.key].outlet = Surface
          /\ ret'.frames[ret'.key] = "dropped frame" ) =>
            /\ ~panicked'
            /\ ~ret'.flag
            /\ viewports' = [viewports EXCEPT
                    ![ret'.key].outlet = SwapChain(viewports[ret'.key].size),
                    ![ret'.key].waits_redraw = FALSE]
      ]_vars

\* C18 witness: a draw of viewport 1 dropped its frame and returned; the
\* viewport holds a swap chain of its size and waits for no redraw
C18_Witness ==
    /\ ret = [Unit("on_draw", 1) EXCEPT !.frames = [w \in {1} |-> "dropped frame"]]
    /\ viewports[1].outlet = SwapChain(viewports[1].size)
    /\ ~viewports[1].waits_redraw

\* the window a key drawn by render_all_vp stands for
DrawnWindow(k) == proxy_windows[k].wid

\* C19: a draw of a window whose minimized flag is set acquires no frame and
\* builds no swap chain: it reports "minimized", not a dropped frame, and the
\* window, its outlet included, is as it was.  A window that is not minimized
\* never reports "minimized".
C19_MinimizedSkipsAcquisition ==
    [][ ret'.op = "render_all_vp" =>
            \A k \in DOMAIN ret'.frames :
                IF manager_windows[DrawnWindow(k)].minimized
                THEN /\ ret'.frames[k] = "minimized"
                     /\ manager_windows'[DrawnWindow(k)] = manager_windows[DrawnWindow(k)]
                ELSE ret'.frames[k] \in {"rendered", "dropped frame"}
      ]_vars

\* C19 witness: render_all_vp returned "minimized" for the main window, which
\* has size 0x0 and no swap chain
C19_Witness ==
    /\ ret.op = "render_all_vp" /\ ret.outcome = "ok"
    /\ DOMAIN ret.frames = {1} /\ ret.frames[1] = "minimized"
    /\ manager_windows[MainWid].minimized
    /\ manager_windows[MainWid].size = [width |-> 0, height |-> 0]
    /\ ~manager_windows[MainWid].swap_chain

\* C20: a Resized event leaves the window minimized exactly when its size is
\* 0x0, and without a swap chain; so after 0x0 and then a non-zero size the
\* window is not minimized and has no swap chain, and the next render_all_vp
\* builds one with the restored size and asks it for a frame.  This holds of
\* every such event of a run, however many came before.
C20_ZeroAreaAndBack ==
    [][ /\ ret'.op = "resized" =>
            LET window == manager_windows'[ret'.key] IN
                /\ window.minimized = (window.size = [width |-> 0, height |-> 0])
                /\ ~window.swap_chain
        /\ ret'.op = "render_all_vp" =>
            \A k \in DOMAIN ret'.frames :
                LET before == manager_windows[DrawnWindow(k)]
                    after == manager_windows'[DrawnWindow(k)]
                IN  (~before.minimized /\ ~before.swap_chain) =>
                        /\ after = [before EXCEPT !.swap_chain = TRUE, !.sc_desc = before.size]
                        /\ ret'.frames[k] \in {"rendered", "dropped frame"}
      ]_vars

\* C20 witness: the main window, whose swap chain was once built at 4x3, was
\* minimized when a Resized event gave it 8x6; it is not minimized now and has
\* no swap chain
C20_Witness ==
    /\ ret = Returned("resized", MainWid, ZeroVec, TRUE)
    /\ manager_windows[MainWid].size = [width |-> 8, height |-> 6]
    /\ manager_windows[MainWid].sc_desc = [width |-> 4, height |-> 3]
    /\ ~manager_windows[MainWid].minimized
    /\ ~manager_windows[MainWid].swap_chain

\* the items of the windows of a stack that are not null and own their
\* viewport, in the order of the stack
RECURSIVE OwnedItems(_)
OwnedItems(stack) ==
    IF stack = << >> THEN << >>
    ELSE IF ~Head(stack).null /\ Head(stack).ViewportOwned
         THEN <<Item(Head(stack))>> \o OwnedItems(Tail(stack))
         ELSE OwnedItems(Tail(stack))

\* the last call on the FocusOrder was next
AfterNext == ret.op = "next"

\* C21: the items a FocusOrder has emitted, followed by the items of the
\* owned windows it has not consumed yet, are the items of the owned windows
\* of the stack in stack order; when next returns None the emitted items are
\* all of them, one per owned window, and none for a null or unowned entry.
\* An empty stack yields no item.
C21_EmitsOwnedInOrder ==
    /\ focus.emitted \o OwnedItems(focus.windows) = OwnedItems(focus.stack)
    /\ (AfterNext /\ ~focus.last.some) => focus.emitted = OwnedItems(focus.stack)
    /\ (AfterNext /\ focus.last.some) =>
            focus.last = focus.emitted[Len(focus.emitted)]
    /\ (AfterNext /\ focus.stack = << >>) => (~focus.last.some /\ focus.emitted = << >>)

\* C21 witness: a stack of an owned window, a null entry, an unowned window
\* and another owned window has been read to its end, and B then A came out
C21_Witness ==
    /\ AfterNext /\ ~focus.last.some
    /\ focus.stack = <<ImGuiWindow("B", 2, TRUE), NullWindow,
                       ImGuiWindow("A", 1, FALSE), ImGuiWindow("A", 1, TRUE)>>
    /\ focus.emitted = <<[some |-> TRUE, name |-> "B", key |-> 2],
                         [some |-> TRUE, name |-> "A", key |-> 1]>>

\* the slice `after` is what is left of the slice `before` when some of its
\* first entries are taken away
IsRestOf(after, before) ==
    \E n \in 0..Len(before) : after = SubSeq(before, n + 1, Len(before))

\* C29: every call of next either consumes at least one entry of the slice or
\* returns None on the empty slice; what is left is a rest of what was there,
\* so no consumed entry comes back; never more items are emitted than the
\* stack has entries; after None the slice is empty, and next on the empty
\* slice returns None; size_hint answers (0, Some(entries not consumed)).
C29_FocusOrderTerminates ==
    [][ /\ ret'.op = "next" =>
            /\ \/ Len(focus'.windows) < Len(focus.windows)
               \/ focus.windows = << >> /\ focus'.windows = << >> /\ ~focus'.last.some
            /\ IsRestOf(focus'.windows, focus.windows)
            /\ (~focus'.last.some) => focus'.windows = << >>
            /\ (focus.windows = << >>) => (~focus'.last.some /\ focus'.emitted = focus.emitted)
            /\ Len(focus'.emitted) + Len(focus'.windows) <= Len(focus.stack)
            /\ focus'.stack = focus.stack
        /\ ret'.op = "size_hint" =>
            /\ focus'.last = [lower |-> 0, upper |-> Len(focus.windows)]
            /\ focus'.last.upper <= Len(focus.stack) - Len(focus.emitted)
            /\ focus'.windows = focus.windows /\ focus'.emitted = focus.emitted
      ]_vars

\* C29 witness: a stack of four entries with one owned window has been read
\* to its end: one item came out, next has returned None, nothing is left
C29_Witness ==
    /\ ret.op = "next" /\ ~ret.flag
    /\ focus.stack = <<NullWindow, ImGuiWindow("A", 1, TRUE),
                       ImGuiWindow("B", 2, FALSE), NullWindow>>
    /\ Len(focus.emitted) = 1
    /\ focus.windows = << >>

\* every key a viewport of the GUI carries has its association in the Proxy
\* and its window in the Manager
GuiKeysResolve ==
    \A k \in gui_keys :
        k \in DOMAIN proxy_windows /\ proxy_windows[k].wid \in DOMAIN manager_windows

\* C22: render_all_vp is called only where main's loop has just drained after
\* the last callbacks of the iteration: the step before it is an update that
\* returned, the queue is empty, and every non-zero key of a GUI viewport has
\* its association and its window, so no lookup of draw_data fails.
C22_RenderFollowsDrain ==
    [][ ret'.op = "render_all_vp" =>
            /\ pc = "render"
            /\ ret.op = "update" /\ ret.outcome = "ok"
            /\ commands = << >>
            /\ GuiKeysResolve
            /\ ret'.outcome = "ok" /\ ~panicked'
      ]_vars

\* C22 witness: render_all_vp has drawn the viewports of both keys the GUI
\* holds, the main window's and a created window's, and returned
C22_Witness ==
    /\ ret.op = "render_all_vp" /\ ret.outcome = "ok"
    /\ pc = "events"
    /\ gui_keys = {1, 2} /\ DOMAIN ret.frames = gui_keys
    /\ commands = << >>
    /\ GuiKeysResolve

\* a SetSize command of the queue targets the window w
SizedInQueue(w) ==
    \E i \in 1..Len(commands) :
        /\ commands[i].kind = "SetSize"
        /\ commands[i].key \in DOMAIN proxy_windows
        /\ proxy_windows[commands[i].key].wid = w

\* C23: over a drain that returns, a window has its swap chain afterwards
\* exactly when it had one before and no SetSize of the queue targeted it:
\* SetSize clears the swap chain of its target and of no other window, and
\* ShowWindow, SetPos, SetFocus and SetTitle clear none.  A window created by
\* the drain has none.
C23_OnlySetSizeClearsSwapChain ==
    [][ (ret'.op = "update" /\ ret'.outcome = "ok") =>
            /\ \A w \in DOMAIN manager_windows :
                /\ w \in DOMAIN manager_windows'
                /\ manager_windows'[w].swap_chain =
                        (manager_windows[w].swap_chain /\ ~SizedInQueue(w))
            /\ \A w \in (DOMAIN manager_windows') \ DOMAIN manager_windows :
                ~manager_windows'[w].swap_chain
      ]_vars

\* C23 witness: a drain of one SetSize for key 2 has returned; the window of
\* key 2, whose swap chain had been built, has none now and has the new
\* size, and the main window still has its swap chain
C23_Witness ==
    /\ ret = Drained("ok", <<Command(2, "SetSize", FALSE, OneVec, "")>>)
    /\ DOMAIN proxy_windows = {1, 2}
    /\ ~manager_windows[proxy_windows[2].wid].swap_chain
    /\ manager_windows[proxy_windows[2].wid].sc_desc = DefaultSize
    /\ manager_windows[proxy_windows[2].wid].size = ToPhysicalSize(OneVec)
    /\ manager_windows[MainWid].swap_chain

\* the calls C24 is about
EarlyOps == {"set_position", "set_size", "set_title", "show_window"}

\* the window, after the commands of the queue that carry the key, in order
RECURSIVE AppliedInOrder(_, _, _)
AppliedInOrder(window, cmds, key) ==
    IF cmds = << >> THEN window
    ELSE IF Head(cmds).key = key /\ Head(cmds).kind # "CreateWindow"
         THEN AppliedInOrder(ApplyToWindow(window, Head(cmds)), Tail(cmds), key)
         ELSE AppliedInOrder(window, Tail(cmds), key)

\* the decorations of the CreateWindow command the queue holds for the key
CreatedWith(cmds, key) ==
    LET i == CHOOSE i \in 1..Len(cmds) :
                cmds[i].key = key /\ cmds[i].kind = "CreateWindow"
    IN  cmds[i].decorations

\* in the queue, a CreateWindow for the key comes before position j
CreatePrecedes(cmds, j) ==
    \E i \in 1..(j - 1) : cmds[i].key = cmds[j].key /\ cmds[i].kind = "CreateWindow"

\* C24: set_position, set_size, set_title and show_window on a key that
\* create_window minted in this pass return without error and push their
\* command behind the key's CreateWindow, touching neither the Proxy's windows
\* nor the Manager's; the drain returns, and the window it created for the
\* key is the window as spawned with those commands applied to it in order.
C24_EarlyCommandsReachNewWindow ==
    [][ /\ (ret'.op \in EarlyOps /\ commands'[Len(commands')].key \in NewKeys) =>
            /\ ret'.outcome = "ok" /\ ~panicked'
            /\ Len(commands') = Len(commands) + 1
            /\ CreatePrecedes(commands', Len(commands'))
            /\ proxy_windows' = proxy_windows
            /\ manager_windows' = manager_windows
        /\ ret'.op = "update" =>
            /\ ret'.outcome = "ok"
            /\ \A k \in NewKeys :
                /\ k \in DOMAIN proxy_windows'
                /\ LET w == proxy_windows'[k].wid IN
                    /\ w \notin DOMAIN manager_windows
                    /\ w \in DOMAIN manager_windows'
                    /\ manager_windows'[w] =
                        AppliedInOrder(
                            spawn_native_window(EmptyMap, w, CreatedWith(commands, k))[w],
                            commands, k)
      ]_vars

\* C24 witness: create_window gave key 2 for an undecorated window, set_size
\* and set_title on key 2 followed in the same pass, and the drain has
\* returned: the window of key 2 has that size and that title
C24_Witness ==
    /\ ret = Drained("ok", <<Command(2, "CreateWindow", FALSE, ZeroVec, ""),
                             Command(2, "SetSize", FALSE, [x |-> 3, y |-> 4], ""),
                             Command(2, "SetTitle", FALSE, ZeroVec, "b")>>)
    /\ 2 \in DOMAIN proxy_windows
    /\ manager_windows[proxy_windows[2].wid].size = [width |-> 2, height |-> 2]
    /\ manager_windows[proxy_windows[2].wid].title = "b"
    /\ ~manager_windows[proxy_windows[2].wid].decorations
    /\ ~manager_windows[proxy_windows[2].wid].swap_chain

\* C25: while the program runs, every key the Proxy holds is associated with
\* the id of a window the Manager holds.
C25_EveryKeyHasWindow ==
    phase = "running" => Dangling(proxy_windows, manager_windows) = {}

\* C25 witness: with the main window still open, the window of key 2 was
\* closed by an event; key 2 is still held, and the first update of the next
\* frame, with nothing to drain, has panicked in its refresh loop
C25_Witness ==
    /\ phase = "running" /\ panicked
    /\ ret = Drained("panic", << >>)
    /\ MainWid \in DOMAIN manager_windows
    /\ 2 \in DOMAIN proxy_windows
    /\ Dangling(proxy_windows, manager_windows) = {2}

\* the keys minted so far
Minted == {minted[i] : i \in 1..Len(minted)}

\* C26: a minting method returns a key that is not 0 and was not returned
\* before; and a mint whose increment of the counter overflows the width of a
\* Key ends in a panic.
C26_KeysNeverWrap ==
    [][ ret'.op \in MintOps =>
            IF next_id + 1 = KeyModulus
            THEN panicked' /\ ret'.outcome = "panic"
            ELSE /\ ret'.outcome = "ok"
                 /\ ret'.key # 0
                 /\ ret'.key \notin Minted
      ]_vars

\* C26 witness: the counter has wrapped; create_window has returned 0 and
\* then, now, 1 again, the key of the main window
C26_Witness ==
    /\ ret = Returned("create_window", 1, ZeroVec, FALSE)
    /\ Len(minted) = KeyModulus + 1
    /\ minted[KeyModulus] = 0
    /\ minted[1] = 1
    /\ ~panicked

\* C27: viewports_to_redraw yields the viewports whose waits_redraw is set and
\* no other; request_redraws sets it on every viewport and changes nothing
\* else; on_draw clears it on the viewport drawn, frame or no frame, and on no
\* other; and no operation but request_redraws sets it, so a viewport whose
\* frame was dropped is not yielded until request_redraws is called again.
C27_RedrawPending ==
    [][ /\ viewports_to_redraw(viewports') =
                {w \in DOMAIN viewports' : viewports'[w].waits_redraw}
        /\ ret'.op = "request_redraws" =>
            /\ viewports_to_redraw(viewports') = DOMAIN viewports
            /\ DOMAIN viewports' = DOMAIN viewports
            /\ \A w \in DOMAIN viewports :
                    viewports'[w] = [viewports[w] EXCEPT !.waits_redraw = TRUE]
        /\ ret'.op = "on_draw" =>
            /\ ret'.frames[ret'.key] \in {"presented", "dropped frame"}
            /\ viewports_to_redraw(viewports') = viewports_to_redraw(viewports) \ {ret'.key}
        /\ ret'.op # "request_redraws" =>
            viewports_to_redraw(viewports') \subseteq viewports_to_redraw(viewports)
      ]_vars

\* C27 witness: of two viewports that waited for a redraw, viewport 1 was
\* drawn and dropped its frame; only viewport 2 is yielded now
C27_Witness ==
    /\ ret.op = "on_draw" /\ ret.key = 1 /\ ret.frames[1] = "dropped frame"
    /\ DOMAIN viewports = {1, 2}
    /\ viewports_to_redraw(viewports) = {2}

\* C28: on_draw with no draw data, on a viewport whose frame is acquired,
\* presents the frame, once, as a draw with draw data does; the viewport it
\* leaves is the one a draw with draw data leaves, with the outlet a swap
\* chain, and the overlay alone is not rendered.
C28_DrawWithoutData ==
    [][ (ret'.op = "on_draw" /\ ret'.frames[ret'.key] # "dropped frame") =>
            LET vp == viewports[ret'.key]
                with == on_draw(vp, TRUE, TRUE)
                without == on_draw(vp, FALSE, TRUE)
            IN  /\ ret'.frames[ret'.key] = "presented"
                /\ viewports'[ret'.key].outlet.state = "SwapChain"
                /\ viewports'[ret'.key] = with.vp /\ with.vp = without.vp
                /\ with.frame = "presented" /\ without.frame = "presented"
                /\ with.overlay /\ ~without.overlay
                /\ ret'.flag \in {with.overlay, without.overlay}
      ]_vars

\* C28 witness: viewport 1, drawn with no draw data, has presented its frame
\* without the overlay and holds a swap chain of its size
C28_Witness ==
    /\ ret = [Unit("on_draw", 1) EXCEPT !.frames = [w \in {1} |-> "presented"]]
    /\ viewports[1].outlet = SwapChain(viewports[1].size)
    /\ viewports[1].waits_redraw = FALSE

\* C30: a close event for window w leaves exactly the other windows, each
\* as it was; for a window the Manager does not hold it changes no window and
\* does not fail; close_native_window returns true exactly when no window is
\* left afterwards, and the loop exits exactly then, so only when no window
\* other than w was open.
C30_CloseNativeWindow ==
    [][ (phase = "running" /\ ret'.op = "close_requested" /\ ret'.outcome = "ok"
            /\ (ret' # ret \/ manager_windows' # manager_windows \/ phase' # phase)) =>
            LET w == ret'.key IN
            /\ DOMAIN manager_windows' = (DOMAIN manager_windows) \ {w}
            /\ \A o \in DOMAIN manager_windows' : manager_windows'[o] = manager_windows[o]
            /\ (w \notin DOMAIN manager_windows => manager_windows' = manager_windows)
            /\ ~panicked'
            /\ (ret'.flag <=> DOMAIN manager_windows' = {})
            /\ (phase' = "exited" <=> ret'.flag)
            /\ (phase' = "exited" => DOMAIN manager_windows \subseteq {w})
      ]_vars

\* C30 witness: the close event of the last window, the Manager is empty and
\* the loop has exited
C30_Witness ==
    /\ ret = Returned("close_requested", MainWid, ZeroVec, TRUE)
    /\ manager_windows = EmptyMap
    /\ phase = "exited"

====
